---- MODULE Spec2Model ----
(***************************************************************************)
(* taco: per-directory command aliases (src/src/main.rs).                  *)
(*                                                                         *)
(* One action is one run of the binary: read_config, the subcommand, and   *)
(* the write_config calls it makes.  The only state that survives a run is *)
(* the config file (disk); everything else describes the last run.         *)
(*                                                                         *)
(* A string is a sequence of one-character strings, so that the string     *)
(* operations of the code (join, slicing, push_str) are computed.          *)
(***************************************************************************)
EXTENDS Integers, Sequences, FiniteSets, TLC

VARIABLES
    disk,       \* taco.json: the serialized `projects` map
    config,     \* the Config value in memory when the last run ended
    call,       \* the command line of the last run
    out,        \* what the last run printed
    exit_code,  \* the exit status of the last run
    spawned,    \* the child shells the last run spawned, in order
    runs        \* number of runs that wrote the config file

vars == <<disk, config, call, out, exit_code, spawned, runs>>

(***************************************************************************)
(* Bounds                                                                  *)
(***************************************************************************)
MaxRuns == 2

(***************************************************************************)
(* The file system the runs see.  A directory is the sequence of its       *)
(* components below the root.                                              *)
(***************************************************************************)
RealDirs == { <<>>, << <<"a">> >>, << <<"a">>, <<"b">> >>, << <<"a">>, <<"c">> >> }

\* /l is a symbolic link to /a/b
Symlinks == [p \in { << <<"l">> >> } |-> << <<"a">>, <<"b">> >>]

\* the working directory of the process
Cwd == << <<"a">> >>

EmptyMap == [k \in {} |-> <<>>]

(***************************************************************************)
(* Strings                                                                 *)
(***************************************************************************)
RECURSIVE SplitAcc(_, _, _)
SplitAcc(s, cur, acc) ==
    IF s = <<>> THEN Append(acc, cur)
    ELSE IF Head(s) = "/" THEN SplitAcc(Tail(s), <<>>, Append(acc, cur))
    ELSE SplitAcc(Tail(s), Append(cur, Head(s)), acc)

\* the pieces of s between its separators
Split(s) == SplitAcc(s, <<>>, <<>>)

\* [T]::join(sep)
RECURSIVE join(_, _)
join(parts, sep) ==
    IF parts = <<>> THEN <<>>
    ELSE IF Len(parts) = 1 THEN parts[1]
    ELSE parts[1] \o sep \o join(Tail(parts), sep)

(***************************************************************************)
(* Paths                                                                   *)
(***************************************************************************)
\* the result of a failed canonicalize
NoEntry == [ok |-> FALSE, dir |-> <<>>]

RECURSIVE Walk(_, _)
Walk(parts, at) ==
    IF parts = <<>> THEN [ok |-> TRUE, dir |-> at]
    ELSE LET p == Head(parts) IN
         IF p = <<>> \/ p = <<".">> THEN Walk(Tail(parts), at)
         ELSE IF p = <<".", ".">>
              THEN Walk(Tail(parts),
                        IF at = <<>> THEN at ELSE SubSeq(at, 1, Len(at) - 1))
         ELSE LET nxt == Append(at, p) IN
              IF nxt \in DOMAIN Symlinks THEN Walk(Tail(parts), Symlinks[nxt])
              ELSE IF nxt \in RealDirs THEN Walk(Tail(parts), nxt)
              ELSE NoEntry

\* realpath(3): the absolute directory the spelling names, symbolic links
\* resolved, or an error when it names nothing
realpath(s) ==
    IF s = <<>> THEN NoEntry
    ELSE IF Head(s) = "/" THEN Walk(Split(s), <<>>)
    ELSE Walk(Split(s), Cwd)

\* values of --pwd: "/", "/a", "/a/b", "/a/c" are canonical; "/a/" has a
\* trailing separator, "/l" is the symbolic link, "b" is relative to the
\* working directory, "/z" does not exist
Canonical == { <<"/">>, <<"/", "a">>, <<"/", "a", "/", "b">>, <<"/", "a", "/", "c">> }
Spellings == Canonical \cup { <<"/", "a", "/">>, <<"/", "l">>, <<"b">>, <<"/", "z">> }

\* what the file system answers for each of them
Realpaths == [s \in Spellings |-> realpath(s)]

\* fs::canonicalize
canonicalize(s) == Realpaths[s]

\* PathBuf::to_str
to_str(dir) ==
    IF dir = <<>> THEN <<"/">>
    ELSE join(<< <<>> >> \o dir, <<"/">>)

\* Path::iter: the root component, then each name
iter(dir) == << <<"/">> >> \o dir

(***************************************************************************)
(* HashMap                                                                 *)
(***************************************************************************)
\* HashMap::insert
insert(m, k, v) == [x \in DOMAIN m \cup {k} |-> IF x = k THEN v ELSE m[x]]

\* HashMap::remove
remove(m, k) == [x \in DOMAIN m \ {k} |-> m[x]]

\* `for (key, value) in src { m.insert(key, value) }`
insert_each(m, src) ==
    [x \in DOMAIN m \cup DOMAIN src |-> IF x \in DOMAIN src THEN src[x] ELSE m[x]]

(***************************************************************************)
(* Config                                                                  *)
(***************************************************************************)
\* Config::new
new == [projects |-> EmptyMap, resolved |-> EmptyMap]

\* read_config: `resolved` is #[serde(skip)], so it starts empty in every run
read_config(file) == [projects |-> file, resolved |-> EmptyMap]

\* write_config: only `projects` is serialized
write_config(cfg) == cfg.projects

\* Config::get_project, for a directory that canonicalizes: the key of the
\* project's own commands in cfg.projects, if it has one
get_project(cfg, project) ==
    LET path == canonicalize(project).dir
        key  == to_str(path)
    IN  IF key \in DOMAIN cfg.projects
        THEN [some |-> TRUE, key |-> key]
        ELSE [some |-> FALSE, key |-> key]

\* the key looked up for the first n components: they are joined with "/",
\* which doubles the leading "/" of the root component
project_path(parent) ==
    LET joined == join(parent, <<"/">>) IN
    IF Len(joined) > 1 THEN SubSeq(joined, 2, Len(joined)) ELSE joined

\* as merge_parents, but a name keeps the command of the shortest prefix
\* that defines it (`entry(key).or_insert(value)` for `insert(key, value)`)
RECURSIVE merge_parents_first_wins(_, _, _, _)
merge_parents_first_wins(projects, parts, n, commands) ==
    IF n > Len(parts) THEN commands
    ELSE LET key == project_path(SubSeq(parts, 1, n)) IN
         merge_parents_first_wins(projects, parts, n + 1,
                                  IF key \in DOMAIN projects
                                  THEN insert_each(projects[key], commands)
                                  ELSE commands)

\* the loop over path.iter(): the commands of each prefix that is a key of
\* `projects` are inserted over what the shorter prefixes gave
RECURSIVE merge_parents(_, _, _, _)
merge_parents(projects, parts, n, commands) ==
    IF n > Len(parts) THEN commands
    ELSE LET key == project_path(SubSeq(parts, 1, n)) IN
         merge_parents(projects, parts, n + 1,
                       IF key \in DOMAIN projects
                       THEN insert_each(commands, projects[key])
                       ELSE commands)

\* as resolve_project_commands, but the merged commands are written to the
\* project's own map as well (`self.projects` for `self.resolved`)
resolve_into_projects(cfg, project) ==
    LET path     == canonicalize(project).dir
        key      == to_str(path)
        commands == merge_parents(cfg.projects, iter(path), 1, EmptyMap)
        merged   == [projects |-> IF DOMAIN commands # {}
                                  THEN insert(cfg.projects, key, commands)
                                  ELSE cfg.projects,
                     resolved |-> IF DOMAIN commands # {}
                                  THEN insert(cfg.resolved, key, commands)
                                  ELSE cfg.resolved]
    IN  [config |-> merged, some |-> key \in DOMAIN merged.resolved, key |-> key]

\* as resolve_project_commands, but the projects of every directory are
\* merged, whether or not it is a prefix of the path
resolve_every_project(cfg, project) ==
    LET path     == canonicalize(project).dir
        key      == to_str(path)
        names    == UNION { DOMAIN cfg.projects[k] : k \in DOMAIN cfg.projects }
        commands == [x \in names |->
                        LET k == CHOOSE k \in DOMAIN cfg.projects : x \in DOMAIN cfg.projects[k]
                        IN  cfg.projects[k][x]]
    IN  IF DOMAIN commands # {}
        THEN [config |-> [cfg EXCEPT !.resolved = insert(cfg.resolved, key, commands)],
              some |-> TRUE, key |-> key]
        ELSE [config |-> cfg, some |-> FALSE, key |-> key]

\* as resolve_project_commands, but the entry in `resolved` is created
\* whether or not any command was merged
resolve_always_some(cfg, project) ==
    LET path     == canonicalize(project).dir
        key      == to_str(path)
        commands == merge_parents(cfg.projects, iter(path), 1, EmptyMap)
        created  == IF key \notin DOMAIN cfg.resolved
                    THEN insert(cfg.resolved, key, EmptyMap)
                    ELSE cfg.resolved
    IN  [config |-> [cfg EXCEPT !.resolved =
                         insert(created, key, insert_each(created[key], commands))],
         some |-> TRUE, key |-> key]

\* Config::resolve_project_commands, for a directory that canonicalizes:
\* the Config afterwards and, when the result is Some, the key of the
\* returned map in its `resolved` table
resolve_project_commands(cfg, project) ==
    LET path     == canonicalize(project).dir
        key      == to_str(path)
        commands == merge_parents(cfg.projects, iter(path), 1, EmptyMap)
        created  == IF DOMAIN commands # {} /\ key \notin DOMAIN cfg.resolved
                    THEN insert(cfg.resolved, key, EmptyMap)
                    ELSE cfg.resolved
    IN  IF key \in DOMAIN created
        THEN [config |-> [cfg EXCEPT !.resolved =
                              insert(created, key, insert_each(created[key], commands))],
              some |-> TRUE, key |-> key]
        ELSE [config |-> [cfg EXCEPT !.resolved = created],
              some |-> FALSE, key |-> key]

(***************************************************************************)
(* Inputs                                                                  *)
(***************************************************************************)
\* alias names
Names == { "x", "y" }

\* the words after `taco add <name> --`
Commands == { << <<"p">> >>, << <<"q">>, <<"r">> >> }

\* the words after `taco <command>`
Passthrough == { <<>>, << <<"z">> >> }

\* what the user types at the (y/N) prompt, trimmed
Answers == { "y", "Y", "", "n" }

\* exit statuses of the child shell
Statuses == { 0, 1 }

\* the exit status of a process that panicked
Panic == 101

\* a missing optional argument
None == "-"

(***************************************************************************)
(* Output                                                                  *)
(***************************************************************************)
\* print_project_commands
print_project_commands(project) ==
    << [line |-> "Available commands",
        none |-> Cardinality(DOMAIN project) = 0,
        commands |-> project,
        footer |-> << Cardinality(DOMAIN project),
                      IF Cardinality(DOMAIN project) = 1 THEN "command" ELSE "commands" >>] >>

\* confirm
confirm(answer) == answer = "y" \/ answer = "Y" \/ answer = ""

\* a run ended by a panic of `fs::canonicalize(project).unwrap()`
panicked(cfg) ==
    [config |-> cfg, out |-> << [line |-> "panicked"] >>, exit_code |-> Panic,
     spawned |-> <<>>, written |-> <<>>]

\* a run that returned Ok(()) from main
returned(cfg, printed, children, written) ==
    [config |-> cfg, out |-> printed, exit_code |-> 0,
     spawned |-> children, written |-> written]

(***************************************************************************)
(* The subcommands.  Each takes the config file and the command line and   *)
(* gives the outcome of the run.                                           *)
(***************************************************************************)
\* `taco add [--pwd <pwd>] <name> -- <arguments>`; a name is always followed
\* by at least one word (`values_of("arguments").unwrap()` panics otherwise)
add(file, pwd, name, arguments, answer) ==
    LET cfg     == read_config(file)
        command == join(arguments, <<" ">>)
        aliased == [line |-> "Aliased", name |-> name, command |-> command, pwd |-> pwd]
    IN  IF name = None
        THEN returned(cfg, << [line |-> "No command provided"] >>, <<>>, <<>>)
        ELSE IF ~canonicalize(pwd).ok THEN panicked(cfg)
        ELSE LET found == get_project(cfg, pwd) IN
             IF found.some
             THEN LET project == cfg.projects[found.key]
                      exists  == name \in DOMAIN project
                      prompt  == IF exists
                                 THEN << [line |-> "already exists", name |-> name,
                                          value |-> project[name]],
                                         [line |-> "override it?", command |-> command] >>
                                 ELSE <<>>
                      cfg2    == [cfg EXCEPT !.projects[found.key] =
                                      insert(project, name, command)]
                  IN  IF exists /\ ~confirm(answer)
                      THEN returned(cfg, prompt \o << [line |-> "Aborted!"] >>, <<>>, <<>>)
                      ELSE returned(cfg2, prompt \o << aliased >>, <<>>,
                                    << write_config(cfg2) >>)
             ELSE LET cfg2 == [cfg EXCEPT !.projects =
                                   insert(cfg.projects, pwd, insert(EmptyMap, name, command))]
                  IN  returned(cfg2, << aliased >>, <<>>, << write_config(cfg2) >>)

\* `taco rm [--pwd <pwd>] <name>`
del(file, pwd, name) ==
    LET cfg == read_config(file) IN
    IF ~canonicalize(pwd).ok THEN panicked(cfg)
    ELSE LET found == get_project(cfg, pwd) IN
         IF found.some
         THEN LET project == cfg.projects[found.key]
                  cfg2    == [cfg EXCEPT !.projects[found.key] = remove(project, name)]
              IN  IF name \in DOMAIN project
                  THEN returned(cfg2, << [line |-> "Removed alias", name |-> name] >>, <<>>,
                                << write_config(cfg2), write_config(cfg2) >>)
                  ELSE returned(cfg2,
                                << [line |-> "Alias does not exist", name |-> name] >>
                                    \o print_project_commands(cfg2.projects[found.key]),
                                <<>>, << write_config(cfg2) >>)
         ELSE returned(cfg, <<>>, <<>>, <<>>)

\* `taco print [--pwd <pwd>] [--json]`
print(file, pwd, json) ==
    LET cfg == read_config(file) IN
    IF ~canonicalize(pwd).ok THEN panicked(cfg)
    ELSE LET r     == resolve_project_commands(cfg, pwd)
             shown == IF r.some THEN r.config.resolved[r.key] ELSE EmptyMap
         IN  returned(r.config,
                      IF json THEN << [line |-> "json", commands |-> shown] >>
                              ELSE print_project_commands(shown),
                      <<>>, <<>>)

\* `taco [--pwd <pwd>] [--print] [<command> [<arguments>]]`: the last arm of
\* main's match; status is the exit status of the child shell, if one runs.
\* Without a command no Config is read: the run ends with none in memory.
main(file, pwd, command, arguments, print_flag, status) ==
    IF command = None
    THEN returned(new, << [line |-> "help"] >>, <<>>, <<>>)
    ELSE
    LET cfg == read_config(file) IN
    IF ~canonicalize(pwd).ok THEN panicked(cfg)
    ELSE LET r == resolve_project_commands(cfg, pwd) IN
         IF r.some
         THEN LET project == r.config.resolved[r.key] IN
              IF command \in DOMAIN project
              THEN IF print_flag
                   THEN returned(r.config,
                                 << [line |-> "command", args |-> project[command]] >>,
                                 <<>>, <<>>)
                   ELSE LET passthrough == join(arguments, <<" ">>)
                            args == IF passthrough # <<>>
                                    THEN project[command] \o <<" ">> \o passthrough
                                    ELSE project[command]
                            cfg2 == [r.config EXCEPT !.resolved[r.key][command] = args]
                        IN  returned(cfg2, <<>>,
                                     << [program |-> "zsh", args |-> << "-c", args >>,
                                         status |-> status] >>,
                                     <<>>)
              ELSE returned(r.config,
                            << [line |-> "Command does not exist", command |-> command] >>
                                \o print_project_commands(project),
                            <<>>, <<>>)
         ELSE returned(r.config, << [line |-> "help"] >>, <<>>, <<>>)

(***************************************************************************)
(* The state machine: one step is one run of the binary.                   *)
(***************************************************************************)
\* ensure_config_exists has written an empty config; no process runs
Init ==
    /\ disk = write_config(new)
    /\ config = new
    /\ call = [op |-> "none"]
    /\ out = <<>>
    /\ exit_code = 0
    /\ spawned = <<>>
    /\ runs = 0

\* the process ends with outcome r; the file holds what write_config wrote last
Finish(r) ==
    /\ call.op = "none"
    /\ Len(r.written) > 0 => runs < MaxRuns
    /\ config' = r.config
    /\ out' = r.out
    /\ exit_code' = r.exit_code
    /\ spawned' = r.spawned
    /\ disk' = IF Len(r.written) > 0 THEN r.written[Len(r.written)] ELSE disk
    /\ runs' = IF Len(r.written) > 0 THEN runs + 1 ELSE runs

\* `taco add`: without a name there are no further words; an answer is
\* read only when confirm is called
Add ==
    \E pwd \in Spellings, name \in Names \cup {None} :
    \E arguments \in IF name = None THEN { <<>> } ELSE Commands :
        LET cfg      == read_config(disk)
            prompted == /\ name # None
                        /\ canonicalize(pwd).ok
                        /\ get_project(cfg, pwd).some
                        /\ name \in DOMAIN cfg.projects[get_project(cfg, pwd).key]
        IN  \E answer \in IF prompted THEN Answers ELSE { None } :
                /\ call' = [op |-> "add", pwd |-> pwd, name |-> name,
                            arguments |-> arguments, typed |-> answer]
                /\ Finish(add(disk, pwd, name, arguments, answer))

\* `taco rm`
Del ==
    \E pwd \in Spellings, name \in Names :
        /\ call' = [op |-> "rm", pwd |-> pwd, name |-> name]
        /\ Finish(del(disk, pwd, name))

\* `taco print`
PrintCommands ==
    \E pwd \in Spellings, json \in BOOLEAN :
        /\ call' = [op |-> "print", pwd |-> pwd, json |-> json]
        /\ Finish(print(disk, pwd, json))

\* `taco <command>`: without a command there are no further words; status
\* is the exit status of the child shell, should one run
Run ==
    \E pwd \in Spellings, command \in Names \cup {None}, print_flag \in BOOLEAN,
       status \in Statuses :
    \E arguments \in IF command = None THEN { <<>> } ELSE Passthrough :
        /\ call' = [op |-> "run", pwd |-> pwd, command |-> command,
                    arguments |-> arguments, print_flag |-> print_flag]
        /\ Finish(main(disk, pwd, command, arguments, print_flag, status))

\* the process is gone, and its memory with it; the file stays
Exit ==
    /\ call.op # "none"
    /\ call' = [op |-> "none"]
    /\ config' = new
    /\ out' = <<>>
    /\ exit_code' = 0
    /\ spawned' = <<>>
    /\ UNCHANGED <<disk, runs>>

Next == Add \/ Del \/ PrintCommands \/ Run \/ Exit

Spec == Init /\ [][Next]_vars

(***************************************************************************)
(* What the properties speak of                                            *)
(***************************************************************************)
\* the directories from the root down to d
Prefixes(d) == { SubSeq(d, 1, n) : n \in 0..Len(d) }

\* the project registered at directory p defines alias x in the file
Defines(file, p, x) == to_str(p) \in DOMAIN file /\ x \in DOMAIN file[to_str(p)]

\* the prefixes of d whose project defines x
Definers(file, d, x) == { p \in Prefixes(d) : Defines(file, p, x) }

\* the deepest of a set of prefixes of one directory
Deepest(ps) == CHOOSE p \in ps : \A q \in ps : Len(q) <= Len(p)

\* the last run resolved the commands of an existing directory
Resolving ==
    /\ call.op \in { "print", "run" }
    /\ call.op = "run" => call.command # None
    /\ canonicalize(call.pwd).ok

\* the directory the last run worked in
LastDir == canonicalize(call.pwd).dir

\* the command line the child shell is given for command text v
Script(v) ==
    IF call.arguments = <<>> THEN v ELSE v \o <<" ">> \o join(call.arguments, <<" ">>)

\* the directories /a, /a/b and /a/c
DirA == << <<"a">> >>
DirAB == << <<"a">>, <<"b">> >>
DirAC == << <<"a">>, <<"c">> >>

(***************************************************************************)
(* C1  Local precedence: whenever a run resolves a directory d and some    *)
(* project at a prefix of d (d included) defines alias x, the value the    *)
(* run sees for x is the one of the deepest such prefix: `taco print`     *)
(* lists it, `taco --print x` prints it, `taco x` hands it to the shell.   *)
(***************************************************************************)
C1_LocalPrecedence ==
    Resolving =>
        \A x \in Names :
            Definers(disk, LastDir, x) # {} =>
                LET v == disk[to_str(Deepest(Definers(disk, LastDir, x)))][x] IN
                /\ call.op = "print" =>
                       /\ x \in DOMAIN out[1].commands
                       /\ out[1].commands[x] = v
                /\ (call.op = "run" /\ call.command = x) =>
                       IF call.print_flag
                       THEN out = << [line |-> "command", args |-> v] >>
                       ELSE /\ Len(spawned) = 1
                            /\ spawned[1].args = << "-c", Script(v) >>

\* x is defined at /a and, with another value, at /a/b; /a/b was listed and
\* shows the value of /a/b
C1_Witness ==
    /\ call.op = "print"
    /\ LastDir = DirAB
    /\ Defines(disk, DirA, "x")
    /\ Defines(disk, DirAB, "x")
    /\ disk[to_str(DirA)]["x"] # disk[to_str(DirAB)]["x"]
    /\ out[1].commands["x"] = disk[to_str(DirAB)]["x"]

(***************************************************************************)
(* C3  Unrelated siblings isolated: every alias a run sees when it         *)
(* resolves directory d is defined by the project of d or of one of its    *)
(* prefixes, with the value one of them gives it; what only other          *)
(* directories define is never listed, printed or run.                     *)
(***************************************************************************)
C3_SiblingsIsolated ==
    Resolving =>
        /\ call.op = "print" =>
               \A x \in DOMAIN out[1].commands :
                   \E p \in Definers(disk, LastDir, x) :
                       out[1].commands[x] = disk[to_str(p)][x]
        /\ call.op = "run" =>
               /\ Definers(disk, LastDir, call.command) = {} => Len(spawned) = 0
               /\ \A i \in 1..Len(out) :
                      out[i].line = "command" =>
                          \E p \in Definers(disk, LastDir, call.command) :
                              out[i].args = disk[to_str(p)][call.command]
               /\ \A i \in 1..Len(out) :
                      out[i].line = "Available commands" =>
                          \A x \in DOMAIN out[i].commands :
                              \E p \in Definers(disk, LastDir, x) :
                                  out[i].commands[x] = disk[to_str(p)][x]

\* x is defined at /a/b only, and listing /a/c shows no command
C3_Witness ==
    /\ call.op = "print"
    /\ LastDir = DirAC
    /\ Defines(disk, DirAB, "x")
    /\ Definers(disk, DirAC, "x") = {}
    /\ out[1].commands = EmptyMap

(***************************************************************************)
(* C5  Resolution leaves the projects alone: a run that resolves a         *)
(* directory (`taco print`, `taco <command>`) ends with the `projects` map *)
(* it read from the file, and with the file as it was, also when           *)
(* passthrough arguments were appended to the resolved command.            *)
(***************************************************************************)
C5_ResolveKeepsProjects ==
    [][Resolving' => /\ config'.projects = disk
                     /\ disk' = disk]_vars

\* a child ran `p z`: the resolved table holds the extended text, the
\* project still holds `p`
C5_Witness ==
    /\ call.op = "run"
    /\ call.arguments # <<>>
    /\ Len(spawned) = 1
    /\ LET key == to_str(LastDir) IN
       /\ key \in DOMAIN config.projects
       /\ call.command \in DOMAIN config.projects[key]
       /\ config.resolved[key][call.command] = Script(config.projects[key][call.command])
       /\ config.resolved[key][call.command] # config.projects[key][call.command]
       /\ config.projects = disk

(***************************************************************************)
(* C2  Inheritance: once `taco add <n> -- <c>` has aliased n in directory  *)
(* D, resolving D gives n -> c, and so does resolving every directory      *)
(* below D that is no project itself (and has no project between D and it  *)
(* that defines n, as in the scenario); what the directories above D       *)
(* resolve to is as it was before the run.                                 *)
(***************************************************************************)
\* what a run gets from resolving directory d, given the file
Resolve(file, d) ==
    LET r == resolve_project_commands(read_config(file), to_str(d)) IN
    IF r.some THEN r.config.resolved[r.key] ELSE EmptyMap

\* the last run added an alias
Aliased == call.op = "add" /\ out[Len(out)].line = "Aliased"

C2_Inheritance ==
    [][Aliased' =>
          LET D == canonicalize(call'.pwd).dir
              n == call'.name
              c == join(call'.arguments, <<" ">>)
          IN  /\ \A S \in RealDirs :
                     ( /\ D \in Prefixes(S)
                       /\ S # D => to_str(S) \notin DOMAIN disk'
                       /\ Definers(disk', S, n) \subseteq Prefixes(D) ) =>
                         /\ n \in DOMAIN Resolve(disk', S)
                         /\ Resolve(disk', S)[n] = c
              /\ \A A \in Prefixes(D) \ { D } : Resolve(disk', A) = Resolve(disk, A)]_vars

(***************************************************************************)
(* C7  Nothing visible: when a run resolves a directory and no project at  *)
(* it or at a prefix of it defines an alias (a project emptied by `rm`     *)
(* included), resolve_project_commands returns None and makes no entry in  *)
(* `resolved`.  None is not an error: `taco <command>` prints the help and *)
(* runs nothing, `taco print` shows an empty list, both exit with 0.       *)
(***************************************************************************)
NothingVisible(file, d) ==
    \A p \in Prefixes(d) : to_str(p) \in DOMAIN file => DOMAIN file[to_str(p)] = {}

C6_CanonicalKeys ==
    \A key \in DOMAIN disk : \E d \in RealDirs : key = to_str(d)

(***************************************************************************)
(* C8  Remove: `taco rm` in a directory that exists reports one of three   *)
(* outcomes.  The project has the name: it is deleted, "Removed alias".    *)
(* The project lacks the name: "Alias does not exist" with the project's   *)
(* own commands, the file keeps its contents.  There is no project: a      *)
(* report of its own, the file keeps its contents.                         *)
(***************************************************************************)
C8_RemoveOutcomes ==
    [][(call'.op = "rm" /\ canonicalize(call'.pwd).ok) =>
          LET key  == to_str(canonicalize(call'.pwd).dir)
              name == call'.name
          IN  IF key \in DOMAIN disk
              THEN IF name \in DOMAIN disk[key]
                   THEN /\ out' = << [line |-> "Removed alias", name |-> name] >>
                        /\ disk' = [disk EXCEPT ![key] = remove(disk[key], name)]
                   ELSE /\ Len(out') = 2
                        /\ out'[1] = [line |-> "Alias does not exist", name |-> name]
                        /\ out'[2].commands = disk[key]
                        /\ disk' = disk
              ELSE /\ Len(out') > 0
                   /\ out'[1].line \notin { "Removed alias", "Alias does not exist" }
                   /\ disk' = disk]_vars

(***************************************************************************)
(* C9  Exit code: a run that executes an alias spawns one child shell and  *)
(* exits with the child's exit status.                                     *)
(***************************************************************************)
C9_ExitCodePropagated ==
    (call.op = "run" /\ Len(spawned) > 0) =>
        /\ Len(spawned) = 1
        /\ exit_code = spawned[1].status

(***************************************************************************)
(* C10  Add keeps the rest: `taco add <name>` leaves every binding of      *)
(* another name, in the project of the directory and in every other        *)
(* project, as it was, whatever the spelling of the directory.             *)
(***************************************************************************)
C10_AddKeepsTheRest ==
    [][call'.op = "add" =>
          \A key \in DOMAIN disk :
              /\ key \in DOMAIN disk'
              /\ \A other \in DOMAIN disk[key] \ { call'.name } :
                     /\ other \in DOMAIN disk'[key]
                     /\ disk'[key][other] = disk[key][other]]_vars

====
